---- MODULE Spec2Model ----
(***************************************************************************)
(* Model of the streaming-catalog aggregator: the module-level load/create *)
(* block of app.py (the snapshot service), load_or_create_database and     *)
(* StreamingDataFetcher.build_content_database of data_fetcher.py (the     *)
(* aggregation engine and the snapshot writer).  Execution is one Python   *)
(* thread, so the model has a single program counter pc.  Every outbound   *)
(* HTTP call either raises or returns one of a small set of JSON bodies.   *)
(***************************************************************************)
EXTENDS Integers, Sequences, FiniteSets, TLC

(* ------------------------------ bounds --------------------------------- *)

\* Number of entries of self.providers that are configured (a prefix of the
\* dictionary of data_fetcher.py:12-20).
NumProviders == 2

\* Largest number of raw items one discover page carries.
MaxPageItems == 2

\* Total number of raw items the catalog API serves during one run.
MaxServed == 2

\* Values of the "Max Pages per Provider" slider / max_pages parameter.
MaxPagesChoices == {1, 2}

\* Values of total_pages the discover endpoint reports; the field may also
\* be missing from the body (an error body), see DiscoverResponses.
TotalPagesChoices == {0, 1, 3}

\* Seconds that may elapse between the start of a request and the write.
Elapsed == {0, 1}

(* --------------------------- Python values ----------------------------- *)

None == "None"
NaN == "NaN"
NA == "N/A"

\* A JSON object / Python dict is a function whose domain is the set of keys
\* it carries.  dict.get(key): None when the key is missing.
Get(d, k) == IF k \in DOMAIN d THEN d[k] ELSE None

\* dict.get(key, default)
GetOr(d, k, default) == IF k \in DOMAIN d THEN d[k] ELSE default

\* Variant: every value counts as true.
TruthyAlways(v) == TRUE

\* Python truthiness of an optional string.
Truthy(v) == v # None /\ v # ""

Min(a, b) == IF a <= b THEN a ELSE b

(* ------------------------- static configuration ------------------------ *)

\* self.providers, in dictionary (insertion) order
ProviderNames == <<"Netflix", "Apple TV", "Amazon Prime", "Disney+", "HBO Max", "Hulu">>

providers == [i \in 1..NumProviders |-> ProviderNames[((i - 1) % 6) + 1]]

total_providers == Len(providers)

content_types == <<"movie", "tv">>

\* The combinations in iteration order: provider_idx k (1-based) is
\* content type ((k-1) div n)+1 and provider ((k-1) mod n)+1.
NumCombinations == Len(content_types) * Len(providers)

ContentTypeOf(k) == content_types[((k - 1) \div Len(providers)) + 1]

ProviderOf(k) == providers[((k - 1) % Len(providers)) + 1]

(* ----------------------- responses of the two APIs --------------------- *)

\* The catalog the two services hold.  A request has one answer; whether a
\* call raises instead of answering is decided call by call.
\*   id 1: a title with genres and a rated IMDb entry
\*   id 2: no title/name in the discover body, the details and external-ids
\*         calls answer with an error body (no "genres", no "imdb_id")
\*   id 3: a title whose IMDb id is unknown to OMDb (error body, no rating)
\*   id 4: a title whose external ids carry the empty IMDb id
\* and one raw item that carries no "id".
TitleKey(ct) == IF ct = "tv" THEN "name" ELSE "title"

RawItems(ct) ==
    { [k \in {"id", TitleKey(ct)} |-> IF k = "id" THEN i ELSE "T"] : i \in {1, 3, 4} }
    \cup { [id |-> 2], [k \in {TitleKey(ct)} |-> "T"] }

SeqsUpTo(S, n) == UNION { [1..k -> S] : k \in 0..n }

\* /3/discover/{type}: a page of results; an error body has neither key.
DiscoverResponses(ct, room) ==
    { [total_pages |-> tp, results |-> rs] :
        tp \in TotalPagesChoices,
        rs \in SeqsUpTo(RawItems(ct), Min(MaxPageItems, room)) }
    \cup { [status_code |-> 7] }

\* A page after the first: only its results are read, so one value of
\* total_pages stands for all.
LaterPageResponses(ct, room) ==
    { body \in DiscoverResponses(ct, room) :
        "total_pages" \in DOMAIN body => body.total_pages = 3 }

\* /3/{type}/{id}: the details, with a "genres" list of {name: ...} objects
DetailsResponse(id) ==
    IF id = 2 THEN [status_code |-> 34]
    ELSE [genres |-> <<[name |-> "Drama"], [name |-> "Comedy"]>>]

\* /3/{type}/{id}/external_ids
ExternalIdsResponse(id) ==
    CASE id = 1 -> [imdb_id |-> "tt1"]
      [] id = 2 -> [status_code |-> 34]
      [] id = 3 -> [imdb_id |-> "tt3"]
      [] OTHER -> [imdb_id |-> ""]

\* OMDb: a rated title, or an error body without the rating keys.
ImdbResponse(imdb) ==
    IF imdb = "tt1" THEN [imdbRating |-> "7.5", imdbVotes |-> "1,234"]
    ELSE [Response |-> "False"]

(* ------------------------------ file names ----------------------------- *)

\* A file name is the sequence of the character codes of its characters, so
\* that str.startswith, str.endswith and sorted() are computed on the text.
Ord ==
    [c \in {".", "0", "1", "2", "4", "_", "a", "c", "d", "e", "g", "i", "m",
            "n", "o", "r", "s", "t", "v", "x"} |->
        CASE c = "." -> 46 [] c = "0" -> 48 [] c = "1" -> 49 [] c = "2" -> 50
          [] c = "4" -> 52 [] c = "_" -> 95 [] c = "a" -> 97 [] c = "c" -> 99
          [] c = "d" -> 100 [] c = "e" -> 101 [] c = "g" -> 103 [] c = "i" -> 105
          [] c = "m" -> 109 [] c = "n" -> 110 [] c = "o" -> 111 [] c = "r" -> 114
          [] c = "s" -> 115 [] c = "t" -> 116 [] c = "v" -> 118 [] c = "x" -> 120]

Codes(chars) == [i \in DOMAIN chars |-> Ord[chars[i]]]

\* "streaming_content_"
Prefix ==
    Codes(<<"s","t","r","e","a","m","i","n","g","_","c","o","n","t","e","n","t","_">>)

\* ".csv"
Suffix == Codes(<<".","c","s","v">>)

StartsWith(f, p) == Len(f) >= Len(p) /\ SubSeq(f, 1, Len(p)) = p

EndsWith(f, p) == Len(f) >= Len(p) /\ SubSeq(f, Len(f) - Len(p) + 1, Len(f)) = p

\* datetime.now().strftime("%Y%m%d_%H%M%S") for the clock reading t, the
\* number of seconds after 2024-01-01 00:00:00 (t < 60): zero-padded digits.
Strftime(t) ==
    Codes(<<"2","0","2","4","0","1","0","1","_","0","0","0","0">>)
        \o <<48 + (t \div 10), 48 + (t % 10)>>

\* f"streaming_content_{timestamp}.csv"
SnapshotName(t) == Prefix \o Strftime(t) \o Suffix

\* Other files the working directory may hold.
DataCsvName == Prefix \o Codes(<<"d","a","t","a">>) \o Suffix

NotesName == Codes(<<"n","o","t","e","s",".","t","x","t">>)

\* Python's order on str: lexicographic by code point, a proper prefix first.
RECURSIVE StrLess(_, _)
StrLess(a, b) ==
    IF a = <<>> THEN b # <<>>
    ELSE IF b = <<>> THEN FALSE
    ELSE IF Head(a) # Head(b) THEN Head(a) < Head(b)
    ELSE StrLess(Tail(a), Tail(b))

\* sorted(names)[-1]
SortedLast(names) == CHOOSE m \in names : \A f \in names : f = m \/ StrLess(f, m)

\* [f for f in os.listdir() if f.startswith("streaming_content_") and f.endswith(".csv")]
CsvFiles(dir) == { f \in DOMAIN dir : StartsWith(f, Prefix) /\ EndsWith(f, Suffix) }

\* find_latest_database(): the greatest matching name, or None
NoFile == <<>>

find_latest_database(dir) ==
    IF CsvFiles(dir) # {} THEN SortedLast(CsvFiles(dir)) ELSE NoFile

(* ------------------------- tables and CSV files ------------------------ *)

\* pd.DataFrame(list of dicts): the columns are the keys any record carries;
\* a record lacking a key holds NaN in that column.
Columns(recs) == UNION { DOMAIN recs[i] : i \in DOMAIN recs }

DataFrame(recs) ==
    [columns |-> Columns(recs),
     rows |-> [i \in DOMAIN recs |->
                 [c \in Columns(recs) |->
                    IF c \in DOMAIN recs[i] THEN recs[i][c] ELSE NaN]]]

\* The text to_csv writes for one cell: None and NaN become the empty field.
CellText(c, v) ==
    IF c = "tmdb_id" THEN ToString(v)
    ELSE IF v \in {None, NaN} THEN "" ELSE v

\* df.to_csv(filename, index=False): a header line and one line per row.
to_csv(df) ==
    [columns |-> df.columns,
     rows |-> [i \in DOMAIN df.rows |->
                 [c \in df.columns |-> CellText(c, df.rows[i][c])]]]

\* A file that is no CSV text at all.
Malformed == [malformed |-> TRUE]

\* Strings read_csv takes for missing values (its default na_values).
NaStrings == {"", "N/A", "NA", "NaN", "None", "null", "nan", "n/a", "NULL"}

IntTexts == {"1", "2", "3", "4"}

IntOf(text) == CHOOSE n \in 1..4 : ToString(n) = text

FloatTexts == {"7.5"}

\* The float a numeric text parses to, kept apart from the str of the same
\* digits: float("7.5") is not "7.5".
FloatOf(text) == "float:" \o text

\* Column type inference of read_csv: a column whose present cells are all
\* integers is an integer column, all numbers a float column, else text.
ColumnCells(content, c) ==
    { content.rows[i][c] : i \in DOMAIN content.rows } \ NaStrings

ParseCell(content, c, text) ==
    IF text \in NaStrings THEN NaN
    ELSE IF ColumnCells(content, c) \subseteq IntTexts THEN IntOf(text)
    ELSE IF ColumnCells(content, c) \subseteq IntTexts \cup FloatTexts
         THEN FloatOf(text)
    ELSE text

\* pd.read_csv raises on a malformed file and on a file without a header
\* (EmptyDataError: an empty DataFrame was written).
ReadCsvRaises(content) == "malformed" \in DOMAIN content \/ content.columns = {}

read_csv(content) ==
    [columns |-> content.columns,
     rows |-> [i \in DOMAIN content.rows |->
                 [c \in content.columns |-> ParseCell(content, c, content.rows[i][c])]]]

\* A snapshot an earlier run left behind: one movie without a rating.
OldRecord ==
    [type |-> "Movie", title |-> "T", tmdb_id |-> 1, imdb_id |-> None,
     provider |-> "Netflix", imdb_rating |-> NA, imdb_votes |-> NA]

OldSnapshot == to_csv(DataFrame(<<OldRecord>>))

(* -------------------------------- state -------------------------------- *)

VARIABLES
    pc,             \* the statement the single Python thread is at
    force_refresh,  \* the "Force Refresh Database" checkbox
    tmdb_api_key,   \* the two credentials ("" when not entered)
    omdb_api_key,
    max_pages,      \* the max_pages argument
    files,          \* the working directory: file name -> content
    clock,          \* seconds on the wall clock
    latest_db,      \* app.py: latest_db
    session,        \* st.session_state: df and filename once loaded or built
    all_content,    \* build_content_database: the records accumulated
    provider_idx,   \* build_content_database: combinations started
    initial_data,   \* the first page of the current combination
    total_pages,    \* the clamped page count of the current combination
    page,           \* the page of the current combination being processed
    data,           \* the page whose items are being processed
    item_i,         \* number of items of data already handled
    details,        \* get_content_details' answer for the current item
    imdb_id,        \* the current item's IMDb id
    served,         \* raw items the catalog API has served so far
    last_call,      \* the outbound call the latest step made, if it made one
    any_call,       \* some outbound call has been made
    any_returned,   \* some outbound call has returned a body
    pages_done,     \* pages of the current combination whose items were all handled
    reported_pages, \* total_pages as the first page of the combination reported it
    visited,        \* the (category, provider) pairs a discover call was made for
    progress_args,  \* the fraction the latest step passed to the progress callback
    page_items,     \* items of the pages this build has started to process
    rebuilds        \* calls of build_content_database that wrote their snapshot

vars ==
    <<pc, force_refresh, tmdb_api_key, omdb_api_key, max_pages, files, clock,
      latest_db, session, all_content, provider_idx, initial_data, total_pages,
      page, data, item_i, details, imdb_id, served, last_call, any_call,
      any_returned, pages_done, reported_pages,
      visited, progress_args, page_items, rebuilds>>

inputs == <<force_refresh, tmdb_api_key, omdb_api_key, max_pages>>

engine == <<all_content, provider_idx, initial_data, total_pages, page, data,
            item_i, details, imdb_id, served, pages_done, reported_pages, visited,
            page_items>>

calls == <<last_call, any_call, any_returned>>

\* A variable Python has not assigned yet.
Unset == [unset |-> TRUE]

NoCall == [op |-> "none", arg |-> None, ok |-> TRUE]

\* The latest step did not call the progress callback.
NoProgress == <<>>

\* Seconds on the clock when the request starts.
ClockStart == 2

\* The working directories a request may find.
InitialDirs ==
    { [f \in {} |-> Malformed],
      [f \in {SnapshotName(1)} |-> OldSnapshot],
      [f \in {SnapshotName(1), SnapshotName(2)} |->
          IF f = SnapshotName(1) THEN OldSnapshot ELSE Malformed],
      [f \in {SnapshotName(1), DataCsvName, NotesName} |->
          IF f = NotesName THEN Malformed ELSE OldSnapshot] }

Init ==
    /\ pc = "find_latest"
    /\ force_refresh \in BOOLEAN
    /\ tmdb_api_key \in {"", "k1"}
    /\ omdb_api_key \in {"", "k2"}
    /\ max_pages \in MaxPagesChoices
    /\ files \in InitialDirs
    /\ clock = ClockStart
    /\ latest_db = NoFile
    /\ session = Unset
    /\ all_content = <<>>
    /\ provider_idx = 0
    /\ initial_data = Unset
    /\ total_pages = 0
    /\ page = 0
    /\ data = Unset
    /\ item_i = 0
    /\ details = Unset
    /\ imdb_id = None
    /\ served = 0
    /\ last_call = NoCall
    /\ any_call = FALSE
    /\ any_returned = FALSE
    /\ pages_done = 0
    /\ reported_pages = 0
    /\ visited = {}
    /\ progress_args = NoProgress
    /\ page_items = 0
    /\ rebuilds = 0

(* --------------------------- snapshot service -------------------------- *)

\* app.py: latest_db = find_latest_database()
FindLatest ==
    /\ pc = "find_latest"
    /\ latest_db' = find_latest_database(files)
    /\ pc' = "try_load"
    /\ UNCHANGED <<inputs, rebuilds, files, clock, session, engine, calls, progress_args>>

\* app.py: if latest_db and not force_refresh
ShouldLoad(latest, force) == latest # NoFile /\ ~force

\* Variant: the except branch leaves latest_db as it was.
LatestKept(latest) == latest

\* app.py: the except branch of the load: latest_db = None
LatestAfterLoadError(latest) == NoFile

\* app.py: the try/except around pd.read_csv(latest_db).  A failed load is
\* reported with st.error and latest_db is set to None.
TryLoad ==
    /\ pc = "try_load"
    /\ IF ShouldLoad(latest_db, force_refresh)
       THEN IF ReadCsvRaises(files[latest_db])
            THEN latest_db' = LatestAfterLoadError(latest_db) /\ UNCHANGED session
            ELSE /\ session' = [df |-> read_csv(files[latest_db]),
                                filename |-> latest_db]
                 /\ UNCHANGED latest_db
       ELSE UNCHANGED <<latest_db, session>>
    /\ pc' = "decide"
    /\ UNCHANGED <<inputs, rebuilds, files, clock, engine, calls, progress_args>>

\* Variant: the rebuild block runs whatever the load did.
RebuildAlways(latest, force) == TRUE

\* app.py: if not latest_db or force_refresh
RebuildRequired(latest, force) == latest = NoFile \/ force

\* Variant: "and" in place of "or".
CredentialBothMissing(tmdb, omdb) == tmdb = "" /\ omdb = ""

\* app.py: if not tmdb_api_key or not omdb_api_key
CredentialMissing(tmdb, omdb) == tmdb = "" \/ omdb = ""

\* load_or_create_database: if csv_files and not force_refresh
LoadsExisting(dir, force) == CsvFiles(dir) # {} /\ ~force

\* The pc after the credential check: st.warning + st.stop() ends the
\* request when a credential is missing, otherwise the call goes ahead.
AfterCredentialCheck(tmdb, omdb) ==
    IF CredentialMissing(tmdb, omdb) THEN "stopped" ELSE "call"

\* app.py: the rebuild block up to the call of load_or_create_database, which
\* app.py always makes with force_refresh=True, and that function's choice
\* between reading the latest file and starting build_content_database.
Decide ==
    /\ pc = "decide"
    /\ IF ~RebuildRequired(latest_db, force_refresh)
       THEN pc' = "ready" /\ UNCHANGED <<session, engine>>
       ELSE IF AfterCredentialCheck(tmdb_api_key, omdb_api_key) = "stopped"
       THEN pc' = "stopped" /\ UNCHANGED <<session, engine>>
       ELSE IF LoadsExisting(files, TRUE)
       THEN /\ session' = [df |-> read_csv(files[SortedLast(CsvFiles(files))]),
                           filename |-> SortedLast(CsvFiles(files))]
            /\ pc' = "ready"
            /\ UNCHANGED engine
       ELSE /\ pc' = "combo"
            /\ all_content' = <<>>
            /\ provider_idx' = 0
            /\ page_items' = 0
            /\ UNCHANGED <<session, initial_data, total_pages, page, data, item_i,
                           details, imdb_id, served, pages_done, reported_pages,
                           visited>>
    /\ UNCHANGED <<inputs, rebuilds, files, clock, latest_db, calls, progress_args>>

(* -------------------------- aggregation engine ------------------------- *)

\* Variant: the reported page count is used unclamped.
UnclampedPages(body, maxp) == GetOr(body, "total_pages", 1)

\* total_pages = min(initial_data.get("total_pages", 1), max_pages)
ClampPages(body, maxp) == Min(GetOr(body, "total_pages", 1), maxp)

\* overall_progress = (provider_idx - 1) / total_providers, as the pair
\* <<numerator, denominator>>
OverallProgress(idx) == <<idx - 1, total_providers>>

\* update_progress -> progress_bar.progress(value): Streamlit rejects a
\* value outside [0.0, 1.0] with an exception.
UpdateProgressRaises(fraction) == ~(0 <= fraction[1] /\ fraction[1] <= fraction[2])

\* data.get("results", [])
Results(body) == GetOr(body, "results", <<>>)

\* ", ".join([genre["name"] for genre in details["genres"]])
JoinNames(genres) ==
    CASE Len(genres) = 0 -> ""
      [] Len(genres) = 1 -> genres[1].name
      [] genres[1].name = "Drama" /\ genres[2].name = "Comedy" -> "Drama, Comedy"

\* content_info, lines 93-108: the basic fields and the genres when the
\* details carry them.  (overview, release_date, tmdb_rating, popularity and
\* poster_path are read with item.get exactly as title is.)
BasicInfo(ct, item, pname, det, iid) ==
    LET base == [type |-> IF ct = "tv" THEN "TV Show" ELSE "Movie",
                 title |-> IF ct = "tv" THEN Get(item, "name") ELSE Get(item, "title"),
                 tmdb_id |-> item.id,
                 imdb_id |-> iid,
                 provider |-> pname]
    IN IF "genres" \in DOMAIN det
       THEN base @@ [genres |-> JoinNames(det.genres)]
       ELSE base

\* lines 111-117: the rating fields, from OMDb's answer or the sentinel
RatingInfo(imdb_data) ==
    [imdb_rating |-> GetOr(imdb_data, "imdbRating", NA),
     imdb_votes |-> GetOr(imdb_data, "imdbVotes", NA)]

\* Variant: the rating fields are left null instead of the sentinel.
NullRatingInfo == [imdb_rating |-> None, imdb_votes |-> None]

\* lines 115-117: no IMDb id, the sentinel in both rating fields
NoRatingInfo == [imdb_rating |-> NA, imdb_votes |-> NA]

\* Variants: a handler that lets the exception go on out of
\* build_content_database.
ItemHandlerReraises == "raised"

CombinationHandlerReraises == "raised"

\* Where control resumes after "except Exception" of the item loop (line 120):
\* at the head of the item loop, with the next item.
ItemHandlerPc == "item"

\* Where control resumes after "except Exception" of the combination (line
\* 128): at the head of the provider loop, with the next combination.
CombinationHandlerPc == "combo"

\* The current combination
CurrentType == ContentTypeOf(provider_idx)

CurrentProvider == ProviderOf(provider_idx)

CurrentItem == Results(data)[item_i + 1]

\* An outbound call that raised / returned
Raised(op, arg) ==
    /\ last_call' = [op |-> op, arg |-> arg, ok |-> FALSE]
    /\ any_call' = TRUE
    /\ UNCHANGED any_returned

Returned(op, arg) ==
    /\ last_call' = [op |-> op, arg |-> arg, ok |-> TRUE]
    /\ any_call' = TRUE
    /\ any_returned' = TRUE

\* A step that makes no outbound call
Offline ==
    /\ last_call' = NoCall
    /\ UNCHANGED <<any_call, any_returned>>

\* The combination is left.  The page loop's variables are not read again
\* before the next combination assigns them, so the model forgets them here.
\* When it is abandoned, the outer handler logs and the provider loop goes on.
LeaveCombination ==
    /\ initial_data' = Unset
    /\ data' = Unset
    /\ total_pages' = 0
    /\ page' = 0
    /\ pages_done' = 0
    /\ reported_pages' = 0
    /\ UNCHANGED <<all_content, item_i, details, imdb_id, page_items>>

\* Variant: the outer handler also discards the records accumulated so far.
AbandonAndClear ==
    /\ pc' = CombinationHandlerPc
    /\ initial_data' = Unset
    /\ data' = Unset
    /\ total_pages' = 0
    /\ page' = 0
    /\ pages_done' = 0
    /\ reported_pages' = 0
    /\ all_content' = <<>>
    /\ UNCHANGED <<item_i, details, imdb_id, page_items>>

AbandonCombination == pc' = CombinationHandlerPc /\ LeaveCombination

\* lines 62-68: the next combination starts with the discover call for its
\* first page, which fixes total_pages.
DiscoverInitial ==
    /\ pc = "combo"
    /\ provider_idx < NumCombinations
    /\ provider_idx' = provider_idx + 1
    /\ visited' = visited \cup {<<ContentTypeOf(provider_idx + 1), ProviderOf(provider_idx + 1)>>}
    /\ \/ /\ Raised("discover", 1)
          /\ AbandonCombination
          /\ UNCHANGED served
       \/ \E body \in DiscoverResponses(ContentTypeOf(provider_idx + 1), MaxServed - served) :
          /\ Returned("discover", 1)
          /\ initial_data' = body
          /\ total_pages' = ClampPages(body, max_pages)
          /\ reported_pages' = GetOr(body, "total_pages", 1)
          /\ served' = served + Len(Results(body))
          /\ page' = 0
          /\ pages_done' = 0
          /\ data' = Unset
          /\ pc' = "page"
          /\ UNCHANGED <<all_content, item_i, details, imdb_id, page_items>>
    /\ progress_args' = NoProgress
    /\ UNCHANGED <<inputs, rebuilds, files, clock, latest_db, session>>

\* Variant: every page, the first included, is fetched by its own call.
PageStepRefetch ==
    /\ pc = "page"
    /\ IF page < total_pages
       THEN /\ progress_args' = OverallProgress(provider_idx)
            /\ IF UpdateProgressRaises(OverallProgress(provider_idx))
               THEN AbandonCombination
               ELSE /\ page' = page + 1
                    /\ pc' = "discover"
                    /\ UNCHANGED <<all_content, initial_data, total_pages, data,
                                   item_i, details, imdb_id, pages_done,
                                   reported_pages, page_items>>
       ELSE /\ pc' = "combo"
            /\ progress_args' = NoProgress
            /\ LeaveCombination
    /\ Offline
    /\ UNCHANGED <<inputs, rebuilds, files, clock, latest_db, session, provider_idx,
                   served, visited>>

\* lines 70-79: the head of the page loop: the progress callback, then the
\* first page is reused and a later page needs its own discover call.  When
\* the pages are exhausted the combination is complete.
PageStep ==
    /\ pc = "page"
    /\ IF page < total_pages
       THEN /\ progress_args' = OverallProgress(provider_idx)
            /\ IF UpdateProgressRaises(OverallProgress(provider_idx))
               THEN AbandonCombination
               ELSE IF page + 1 > 1
               THEN /\ page' = page + 1
                    /\ pc' = "discover"
                    /\ UNCHANGED <<all_content, initial_data, total_pages, data,
                                   item_i, details, imdb_id, pages_done,
                                   reported_pages, page_items>>
               ELSE /\ page' = page + 1
                    /\ data' = initial_data
                    /\ item_i' = 0
                    /\ page_items' = page_items + Len(Results(initial_data))
                    /\ pc' = "item"
                    /\ UNCHANGED <<all_content, initial_data, total_pages,
                                   details, imdb_id, pages_done, reported_pages>>
       ELSE /\ pc' = "combo"
            /\ progress_args' = NoProgress
            /\ LeaveCombination
    /\ Offline
    /\ UNCHANGED <<inputs, rebuilds, files, clock, latest_db, session, provider_idx, served,
                   visited>>

\* line 77: data = self.get_streaming_content(content_type, provider_id, page)
DiscoverPage ==
    /\ pc = "discover"
    /\ \/ /\ Raised("discover", page)
          /\ AbandonCombination
          /\ UNCHANGED served
       \/ \E body \in LaterPageResponses(CurrentType, MaxServed - served) :
          /\ Returned("discover", page)
          /\ data' = body
          /\ served' = served + Len(Results(body))
          /\ page_items' = page_items + Len(Results(body))
          /\ item_i' = 0
          /\ pc' = "item"
          /\ UNCHANGED <<all_content, initial_data, total_pages, page, details,
                         imdb_id, pages_done, reported_pages>>
    /\ progress_args' = NoProgress
    /\ UNCHANGED <<inputs, rebuilds, files, clock, latest_db, session, provider_idx, visited>>

\* Variant: the failed item is tried again.
RetryItem ==
    /\ pc' = "item"
    /\ item_i' = item_i
    /\ details' = Unset
    /\ imdb_id' = None
    /\ UNCHANGED all_content

\* The item is dropped: the inner handler logs, sleeps and the item loop goes
\* on with the next item.
SkipItem ==
    /\ pc' = ItemHandlerPc
    /\ item_i' = item_i + 1
    /\ details' = Unset
    /\ imdb_id' = None
    /\ UNCHANGED all_content

\* Variant: the record is appended twice.
AppendTwice(info) ==
    /\ all_content' = Append(Append(all_content, info), info)
    /\ item_i' = item_i + 1
    /\ details' = Unset
    /\ imdb_id' = None
    /\ pc' = "item"

\* line 119: all_content.append(content_info), then the next item
AppendRecord(info) ==
    /\ all_content' = Append(all_content, info)
    /\ item_i' = item_i + 1
    /\ details' = Unset
    /\ imdb_id' = None
    /\ pc' = "item"

\* lines 81-86: the next item of the page: item["id"] (a KeyError when the
\* body lacks it) and the details call.
GetContentDetails ==
    /\ pc = "item"
    /\ item_i < Len(Results(data))
    /\ IF "id" \notin DOMAIN CurrentItem
       THEN SkipItem /\ Offline
       ELSE \/ Raised("details", CurrentItem.id) /\ SkipItem
            \/ /\ Returned("details", CurrentItem.id)
               /\ details' = DetailsResponse(CurrentItem.id)
               /\ pc' = "external"
               /\ UNCHANGED <<all_content, item_i, imdb_id>>
    /\ progress_args' = NoProgress
    /\ UNCHANGED <<inputs, rebuilds, files, clock, latest_db, session, provider_idx,
                   initial_data, total_pages, page, data, served, pages_done,
                   reported_pages, visited, page_items>>

\* lines 89-90 and 111-119: the external-ids call; with no IMDb id the record
\* is completed with the sentinel and appended without a rating call.
GetExternalIds ==
    /\ pc = "external"
    /\ \/ Raised("external_ids", CurrentItem.id) /\ SkipItem
       \/ LET body == ExternalIdsResponse(CurrentItem.id)
          IN /\ Returned("external_ids", CurrentItem.id)
             /\ IF Truthy(Get(body, "imdb_id"))
                THEN /\ imdb_id' = Get(body, "imdb_id")
                     /\ pc' = "rating"
                     /\ UNCHANGED <<all_content, item_i, details>>
                ELSE AppendRecord(
                       BasicInfo(CurrentType, CurrentItem, CurrentProvider, details,
                                 Get(body, "imdb_id")) @@ NoRatingInfo)
    /\ progress_args' = NoProgress
    /\ UNCHANGED <<inputs, rebuilds, files, clock, latest_db, session, provider_idx,
                   initial_data, total_pages, page, data, served, pages_done,
                   reported_pages, visited, page_items>>

\* lines 112-119: the rating call for a resolved IMDb id, then the append
GetImdbData ==
    /\ pc = "rating"
    /\ \/ Raised("imdb", imdb_id) /\ SkipItem
       \/ /\ Returned("imdb", imdb_id)
          /\ AppendRecord(
               BasicInfo(CurrentType, CurrentItem, CurrentProvider, details, imdb_id)
                 @@ RatingInfo(ImdbResponse(imdb_id)))
    /\ progress_args' = NoProgress
    /\ UNCHANGED <<inputs, rebuilds, files, clock, latest_db, session, provider_idx,
                   initial_data, total_pages, page, data, served, pages_done,
                   reported_pages, visited, page_items>>

\* lines 81 and 127: the items of the page are exhausted; back to the page
\* loop.  Neither data nor initial_data is read again before it is assigned
\* anew, so the model forgets both here.
PageDone ==
    /\ pc = "item"
    /\ item_i = Len(Results(data))
    /\ pages_done' = pages_done + 1
    /\ data' = Unset
    /\ initial_data' = Unset
    /\ item_i' = 0
    /\ pc' = "page"
    /\ UNCHANGED <<inputs, rebuilds, files, clock, latest_db, session, all_content,
                   provider_idx, total_pages, page, details, imdb_id, served,
                   reported_pages, visited, page_items>>
    /\ progress_args' = NoProgress
    /\ Offline

\* Variant: the table is written at the head of the provider loop, whether
\* or not combinations are left.
WriteSnapshotEarly ==
    /\ pc = "combo"
    /\ \E d \in Elapsed :
       /\ clock' = clock + d
       /\ files' = (SnapshotName(clock + d) :> to_csv(DataFrame(all_content))) @@ files
       /\ session' = [df |-> DataFrame(all_content), filename |-> SnapshotName(clock + d)]
    /\ pc' = "ready"
    /\ Offline
    /\ progress_args' = NoProgress
    /\ rebuilds' = rebuilds + 1
    /\ UNCHANGED <<inputs, latest_db, engine>>

\* lines 132-139 and app.py 127-128: every combination was visited; the
\* table is written under the name of the current second and handed back.
WriteSnapshot ==
    /\ pc = "combo"
    /\ provider_idx = NumCombinations
    /\ \E d \in Elapsed :
       /\ clock' = clock + d
       /\ files' = (SnapshotName(clock + d) :> to_csv(DataFrame(all_content))) @@ files
       /\ session' = [df |-> DataFrame(all_content), filename |-> SnapshotName(clock + d)]
    /\ pc' = "ready"
    /\ Offline
    /\ progress_args' = NoProgress
    /\ rebuilds' = rebuilds + 1
    /\ UNCHANGED <<inputs, latest_db, engine>>

Next ==
    \/ FindLatest
    \/ TryLoad
    \/ Decide
    \/ DiscoverInitial
    \/ PageStep
    \/ DiscoverPage
    \/ GetContentDetails
    \/ GetExternalIds
    \/ GetImdbData
    \/ PageDone
    \/ WriteSnapshot

Spec == Init /\ [][Next]_vars

(* ------------------------------ properties ----------------------------- *)

\* The request is over: the table is in the session, or st.stop() ended it.
Terminal == pc \in {"ready", "stopped"}

\* build_content_database is running.
Building == pc \in {"combo", "page", "discover", "item", "external", "rating"}

AllCombinations ==
    { <<content_types[c], providers[q]>> : c \in DOMAIN content_types, q \in DOMAIN providers }

\* C1: build_content_database never raises out to its caller: whatever
\* outbound calls fail, no exception leaves the engine, the engine can always
\* take its next step until it has returned, and when it has returned a
\* discover call was made for every (category, provider) combination and the
\* caller holds a table with one row per accumulated record.
C1_BuildNeverRaises ==
    /\ pc # "raised"
    /\ Building => ENABLED Next
    /\ (pc = "ready" /\ any_call) =>
          /\ visited = AllCombinations
          /\ provider_idx = NumCombinations
          /\ session.df = DataFrame(all_content)

\* C1 witness: a build in which every outbound call raised has returned, with
\* an empty table.
C1_Witness ==
    /\ pc = "ready"
    /\ any_call
    /\ ~any_returned
    /\ visited = AllCombinations
    /\ session.df.rows = <<>>

\* A step that ends the current combination after its first page was fetched.
CombinationEnds == pc \in {"page", "discover"} /\ pc' = "combo"

\* A step that ends it because the page loop ran out of pages.
CombinationCompletes ==
    CombinationEnds /\ progress_args' = NoProgress /\ last_call'.op = "none"

\* C2 as stated: every combination whose initial discover succeeded ends
\* with exactly min(total_pages, max_pages) pages processed, and no page
\* number above max_pages is ever processed.  (Stated for the combinations
\* whose progress callback does not raise, so that the out-of-range fraction
\* of C6 plays no part in it.)
C2_ExactlyClampedPages ==
    [][ /\ page' <= max_pages
        /\ (CombinationEnds /\ progress_args' = NoProgress) =>
              pages_done = Min(reported_pages, max_pages) ]_vars

\* C2 amended: a combination whose initial discover succeeded processes at
\* most min(total_pages, max_pages) pages and never a page number above
\* max_pages; it processes exactly min(total_pages, max_pages) pages when it
\* is not abandoned, that is when neither a discover call for a later page
\* nor the progress callback raises.
C2_ClampedPages ==
    [][ /\ page' <= max_pages
        /\ pages_done' <= Min(reported_pages', max_pages)
        /\ CombinationEnds => pages_done <= Min(reported_pages, max_pages)
        /\ CombinationCompletes => pages_done = Min(reported_pages, max_pages) ]_vars

\* C2 witness: max_pages = 1, the first page reported total_pages = 3, and
\* the page loop is over after exactly one page.
C2_Witness ==
    /\ pc = "page"
    /\ max_pages = 1
    /\ reported_pages = 3
    /\ page = 1
    /\ total_pages = 1
    /\ pages_done = 1

\* The latest snapshot of directory dir exists and loads.
LatestLoads(dir) ==
    /\ CsvFiles(dir) # {}
    /\ ~ReadCsvRaises(dir[SortedLast(CsvFiles(dir))])

\* C3: with force_refresh false and a latest snapshot that loads, no step of
\* the request makes an outbound call, starts the engine or writes a file,
\* and the request ends with the loaded latest snapshot and its file name.
C3_ReuseWithoutEngine ==
    [][ (~force_refresh /\ LatestLoads(files)) =>
          /\ files' = files
          /\ ~any_call'
          /\ pc' \in {"try_load", "decide", "ready"}
          /\ pc' = "ready" =>
                session' = [df |-> read_csv(files[SortedLast(CsvFiles(files))]),
                            filename |-> SortedLast(CsvFiles(files))] ]_vars

\* C3 witness: the request is over with the existing snapshot loaded and no
\* outbound call made.
C3_Witness ==
    /\ pc = "ready"
    /\ ~force_refresh
    /\ ~any_call
    /\ files \in InitialDirs
    /\ "df" \in DOMAIN session
    /\ session.filename = SnapshotName(1)
    /\ Len(session.df.rows) = 1

\* C4: when a rebuild is required (force_refresh, or no existing snapshot)
\* and either credential is empty, the request ends at the credential check:
\* no step makes an outbound call, starts the engine, writes a file or puts a
\* table in the session.
C4_CredentialError ==
    [][ ((force_refresh \/ CsvFiles(files) = {})
            /\ (tmdb_api_key = "" \/ omdb_api_key = "")) =>
          /\ files' = files
          /\ ~any_call'
          /\ session' = Unset
          /\ pc' \in {"try_load", "decide", "stopped"}
          /\ pc = "decide" => pc' = "stopped" ]_vars

\* C4 witness: empty credentials, no snapshot, force_refresh: the request was
\* stopped and nothing was written.
C4_Witness ==
    /\ pc = "stopped"
    /\ force_refresh
    /\ tmdb_api_key = ""
    /\ omdb_api_key = ""
    /\ DOMAIN files = {}
    /\ ~any_call

\* C5: every record of the engine's output has a non-null category, title,
\* provider and primary-source identifier.
C5_RequiredFieldsPopulated ==
    \A i \in DOMAIN all_content :
        /\ {"type", "title", "provider", "tmdb_id"} \subseteq DOMAIN all_content[i]
        /\ all_content[i].type # None
        /\ all_content[i].title # None
        /\ all_content[i].provider # None

\* C6: every invocation of the progress callback passes a fraction in
\* [0, 1], equal to (combinations already completed) / total_providers.
C6_ProgressFractionInRange ==
    progress_args # NoProgress =>
        /\ progress_args = <<provider_idx - 1, total_providers>>
        /\ 0 <= progress_args[1]
        /\ progress_args[1] <= progress_args[2]

\* The latest step made a call for the current item and the call raised.
ItemCallRaised ==
    last_call'.op \in {"details", "external_ids", "imdb"} /\ ~last_call'.ok

\* C7: when a call made for an item raises, the item contributes no record,
\* the engine moves on to the next item of the same page of the same
\* combination (the failed item is not taken up again), and the page's
\* remaining items are unchanged.
C7_FailedItemSkipped ==
    [][ ItemCallRaised =>
          /\ all_content' = all_content
          /\ item_i' = item_i + 1
          /\ pc' = "item"
          /\ data' = data
          /\ page' = page
          /\ provider_idx' = provider_idx ]_vars

\* C7 witness: the first item of a two-item page was dropped because its
\* rating call raised; the second item is next and the output is empty.
C7_Witness ==
    /\ pc = "item"
    /\ last_call.op = "imdb"
    /\ ~last_call.ok
    /\ item_i = 1
    /\ Len(Results(data)) = 2
    /\ all_content = <<>>

\* The engine is done with the current item in this step.
ItemHandled == pc \in {"item", "external", "rating"} /\ item_i' = item_i + 1

\* C8 as stated: every item of a processed page gets a record appended,
\* whichever enrichment sub-steps failed.  (Stated for the items that carry an
\* id, so that only a failed enrichment call can stand against it.)
C8_RecordForEveryItem ==
    [][ (ItemHandled /\ "id" \in DOMAIN CurrentItem) =>
          Len(all_content') = Len(all_content) + 1 ]_vars

\* C8 amended: an item of a processed page gets a record appended exactly
\* when it carries an id and none of its enrichment calls raises; in that
\* record the genres field is absent when the details body carries no genres,
\* and both rating fields are "N/A" when no IMDb id resolved or OMDb's body
\* carries no rating.  An item with a raising call or without an id gets no
\* record.
C8_RecordWhenCallsReturn ==
    [][ ItemHandled =>
          IF last_call'.op # "none" /\ last_call'.ok
          THEN /\ Len(all_content') = Len(all_content) + 1
               /\ SubSeq(all_content', 1, Len(all_content)) = all_content
               /\ LET r == all_content'[Len(all_content')]
                      id == CurrentItem.id
                  IN /\ r.tmdb_id = id
                     /\ r.provider = CurrentProvider
                     /\ ("genres" \in DOMAIN r) = ("genres" \in DOMAIN DetailsResponse(id))
                     /\ r.imdb_id = Get(ExternalIdsResponse(id), "imdb_id")
                     /\ (~Truthy(r.imdb_id) \/ "imdbRating" \notin DOMAIN ImdbResponse(r.imdb_id))
                           => (r.imdb_rating = NA /\ r.imdb_votes = NA)
          ELSE all_content' = all_content ]_vars

\* C8 witness: a record was appended for the item whose details and external
\* ids came back as error bodies: no genres, both rating fields "N/A".
C8_Witness ==
    /\ pc = "item"
    /\ last_call.op = "external_ids"
    /\ last_call.ok
    /\ last_call.arg = 2
    /\ Len(all_content) = 1
    /\ "genres" \notin DOMAIN all_content[1]
    /\ all_content[1].imdb_rating = NA
    /\ all_content[1].imdb_votes = NA

\* The latest step made the first discover call of a combination and it raised.
InitialDiscoverRaised ==
    pc = "combo" /\ last_call'.op = "discover" /\ ~last_call'.ok

\* C9: when the initial discover call of a combination raises, the
\* combination contributes no record, the engine is back at the head of the
\* provider loop, the only call it makes from there is the first discover of
\* the next combination, and when the engine returns every combination had
\* its discover call.
C9_FailedCombinationSkipped ==
    [][ /\ InitialDiscoverRaised =>
            /\ all_content' = all_content
            /\ pc' = "combo"
            /\ provider_idx' = provider_idx + 1
        /\ (pc = "combo" /\ last_call'.op # "none") =>
            /\ last_call'.op = "discover"
            /\ last_call'.arg = 1
            /\ provider_idx' = provider_idx + 1
            /\ visited' = visited \cup {<<ContentTypeOf(provider_idx'), ProviderOf(provider_idx')>>}
        /\ (pc = "combo" /\ pc' = "ready") => visited = AllCombinations ]_vars

\* C9 witness: the first combination's discover raised and the engine stands
\* at the head of the provider loop with combinations left.
C9_Witness ==
    /\ pc = "combo"
    /\ last_call.op = "discover"
    /\ ~last_call.ok
    /\ provider_idx = 1
    /\ provider_idx < NumCombinations
    /\ all_content = <<>>

IsTimestamped(f) ==
    /\ Len(f) = Len(Prefix) + 15 + Len(Suffix)
    /\ StartsWith(f, Prefix)
    /\ EndsWith(f, Suffix)
    /\ \A i \in 1..15 :
          IF i = 9 THEN f[Len(Prefix) + i] = 95
          ELSE f[Len(Prefix) + i] \in 48..57

TimestampedFiles(dir) == { f \in DOMAIN dir : IsTimestamped(f) }

\* C11: find_latest_database considers only the files named
\* streaming_content_<YYYYMMDD_HHMMSS>.csv and returns the lexicographically
\* greatest of them, or nothing when there is none; a file such as
\* streaming_content_data.csv is never returned.
C11_FindLatestTimestamped ==
    pc = "try_load" =>
        /\ latest_db # DataCsvName
        /\ latest_db = IF TimestampedFiles(files) = {} THEN NoFile
                       ELSE SortedLast(TimestampedFiles(files))

(* --------------------------- several requests -------------------------- *)

\* Number of rebuilds followed in one behaviour.
MaxRebuilds == 2

\* app.py: the script runs again from the top for a request whose session
\* state holds no table: another browser session of the same server, which
\* shares the working directory and the wall clock.  The time.sleep(1) after
\* a build delays only the session that built, so the new request may reach
\* its write within the same clock second.
NewSession ==
    /\ pc \in {"ready", "stopped"}
    /\ rebuilds < MaxRebuilds
    /\ \E d \in Elapsed :
          /\ clock + d <= ClockStart + MaxRebuilds
          /\ clock' = clock + d
    /\ pc' = "find_latest"
    /\ latest_db' = NoFile
    /\ session' = Unset
    /\ all_content' = <<>>
    /\ provider_idx' = 0
    /\ page_items' = 0
    /\ visited' = {}
    /\ last_call' = NoCall
    /\ any_call' = FALSE
    /\ any_returned' = FALSE
    /\ UNCHANGED <<inputs, rebuilds, files, initial_data, total_pages, page, data,
                   item_i, details, imdb_id, served, pages_done, reported_pages,
                   progress_args>>

\* The first request finds an empty working directory and both credentials.
InitSessions ==
    /\ Init
    /\ DOMAIN files = {}
    /\ tmdb_api_key # ""
    /\ omdb_api_key # ""

NextSessions == Next \/ NewSession

SpecSessions == InitSessions /\ [][NextSessions]_vars

\* C12: writing a snapshot never overwrites an existing one: every file of
\* the directory is still there with its contents after every step, and the
\* number of snapshot files equals the number of completed rebuilds, also
\* when two rebuilds finish within the same clock second.
C12_WriteNeverOverwrites ==
    [][ /\ \A f \in DOMAIN files : f \in DOMAIN files' /\ files'[f] = files[f]
        /\ Cardinality(DOMAIN files') = rebuilds' ]_vars

\* Equality of two cells of column c, a missing value (None or NaN) being
\* equal to a missing value.
SameCell(c, a, b) ==
    IF c = "tmdb_id" THEN a = b
    ELSE (a \in {None, NaN} /\ b \in {None, NaN}) \/ a = b

\* C13: the snapshot a build wrote, loaded again, gives the rows of the
\* written table with identical field values, for every non-empty table the
\* engine can produce, records with "N/A" rating fields and records without
\* their optional fields included.
C13_RoundTrip ==
    (pc = "ready" /\ rebuilds = 1 /\ all_content # <<>>) =>
        /\ ~ReadCsvRaises(files[session.filename])
        /\ LET back == read_csv(files[session.filename])
           IN /\ back.columns = session.df.columns
              /\ DOMAIN back.rows = DOMAIN session.df.rows
              /\ \A i \in DOMAIN back.rows : \A c \in back.columns :
                    SameCell(c, back.rows[i][c], session.df.rows[i][c])

\* C14: the rating call is made for an item only after its external-ids call
\* returned a non-empty IMDb id, and with exactly that id; when the
\* external-ids call returned no id (none, or the empty string) the item is
\* finished in that step without a rating call, and its record carries "N/A"
\* in both rating fields.
C14_RatingOnlyWithResolvedId ==
    [][ /\ last_call'.op = "imdb" =>
            /\ pc = "rating"
            /\ imdb_id \notin {None, ""}
            /\ imdb_id = Get(ExternalIdsResponse(CurrentItem.id), "imdb_id")
            /\ last_call'.arg = imdb_id
        /\ pc' = "rating" =>
            /\ pc = "external"
            /\ last_call'.op = "external_ids"
            /\ last_call'.ok
            /\ imdb_id' \notin {None, ""}
            /\ imdb_id' = Get(ExternalIdsResponse(CurrentItem.id), "imdb_id")
        /\ (pc = "external" /\ last_call'.ok
              /\ Get(ExternalIdsResponse(CurrentItem.id), "imdb_id") \in {None, ""}) =>
            /\ pc' = "item"
            /\ item_i' = item_i + 1
            /\ Len(all_content') = Len(all_content) + 1
            /\ all_content'[Len(all_content')].tmdb_id = CurrentItem.id
            /\ all_content'[Len(all_content')].imdb_rating = NA
            /\ all_content'[Len(all_content')].imdb_votes = NA ]_vars

\* C14 witness: a first item got its rating through a rating call, and a
\* second item, whose external ids carry the empty IMDb id, was finished by
\* its external-ids call with "N/A" in both rating fields.
C14_Witness ==
    /\ pc = "item"
    /\ last_call.op = "external_ids"
    /\ last_call.ok
    /\ last_call.arg = 4
    /\ Len(all_content) = 2
    /\ all_content[1].imdb_id = "tt1"
    /\ all_content[1].imdb_rating = "7.5"
    /\ all_content[2].imdb_id = ""
    /\ all_content[2].imdb_rating = NA
    /\ all_content[2].imdb_votes = NA

\* C15: the records of a build number at most the items of the pages the
\* build processed, which are pages among the first min(total_pages,
\* max_pages) of their combination; every record is appended while one item
\* of such a page is handled and every item contributes at most one record;
\* the table the build returns has that many rows.
C15_RecordCountBounded ==
    [][ /\ Len(all_content') <= page_items'
        /\ page_items' # page_items =>
              (page_items' = 0 \/ page' <= Min(reported_pages', max_pages))
        /\ all_content' # all_content =>
              \/ all_content' = <<>>
              \/ /\ Len(all_content') = Len(all_content) + 1
                 /\ item_i < Len(Results(data))
                 /\ item_i' = item_i + 1
                 /\ page <= Min(reported_pages, max_pages)
        /\ (pc' = "ready" /\ rebuilds' # rebuilds) =>
              Len(session'.df.rows) <= page_items' ]_vars

\* C15 witness: a build has returned one record from two processed items.
C15_Witness ==
    /\ pc = "ready"
    /\ rebuilds = 1
    /\ page_items = 2
    /\ Len(all_content) = 1
    /\ Len(session.df.rows) = 1

\* C16: a rebuild writes its snapshot file exactly once, in the step that
\* ends the build, after a discover call was made for every (category,
\* provider) combination: no step taken while a combination, page or item is
\* pending touches the directory, the write leaves every other file as it
\* was, and the written table has one row for every accumulated record.
C16_WriteOnceAtEnd ==
    [][ /\ (files' # files \/ rebuilds' # rebuilds) =>
            /\ pc = "combo"
            /\ provider_idx = NumCombinations
            /\ visited = AllCombinations
            /\ pc' = "ready"
            /\ rebuilds' = rebuilds + 1
            /\ DOMAIN files' = DOMAIN files \cup {SnapshotName(clock')}
            /\ files'[SnapshotName(clock')] = to_csv(DataFrame(all_content))
            /\ Len(files'[SnapshotName(clock')].rows) = Len(all_content)
            /\ \A f \in DOMAIN files \ {SnapshotName(clock')} : files'[f] = files[f]
        /\ (pc \in {"page", "discover", "item", "external", "rating"}
              \/ (pc = "combo" /\ provider_idx < NumCombinations)) =>
            (files' = files /\ rebuilds' = 0)
        /\ (pc = "combo" /\ pc' = "ready") => rebuilds' = 1 ]_vars

\* C16 witness: a build that accumulated two records has ended and its one
\* written file holds two rows.
C16_Witness ==
    /\ pc = "ready"
    /\ rebuilds = 1
    /\ visited = AllCombinations
    /\ Len(all_content) = 2
    /\ session.filename \in DOMAIN files
    /\ Len(files[session.filename].rows) = 2

\* C17: within a combination the only discover call with page number 1 is
\* the initial one, whose body is reused as page 1 without a call; a page
\* p > 1 is entered once from the head of the page loop, after every item of
\* page p-1 was handled, and is fetched by one discover call with argument p
\* made before any call for an item of page p; a combination that runs
\* through its page loop has had every page 1..min(total_pages, max_pages)
\* processed.
C17_OneDiscoverPerPage ==
    [][ /\ last_call'.op = "discover" =>
            \/ /\ pc = "combo"
               /\ last_call'.arg = 1
               /\ last_call'.ok => (pc' = "page" /\ page' = 0 /\ initial_data' # Unset)
            \/ /\ pc = "discover"
               /\ last_call'.arg = page
               /\ page > 1
               /\ page <= total_pages
               /\ pages_done = page - 1
               /\ data = Unset
               /\ last_call'.ok =>
                     (pc' = "item" /\ item_i' = 0 /\ data' # Unset /\ page' = page)
        /\ pc' = "discover" =>
            /\ pc = "page"
            /\ page >= 1
            /\ page' = page + 1
            /\ pages_done = page
            /\ last_call'.op = "none"
        /\ (pc = "page" /\ pc' = "item") =>
            /\ page = 0
            /\ page' = 1
            /\ data' = initial_data
            /\ last_call'.op = "none"
        /\ last_call'.op \in {"details", "external_ids", "imdb"} =>
            (data # Unset /\ pages_done = page - 1)
        /\ CombinationCompletes =>
            (page = total_pages /\ pages_done = Min(reported_pages, max_pages)) ]_vars

\* C17 witness: page 1 was processed from the initial body, page 2 has just
\* been fetched by its own discover call and none of its items is handled yet.
C17_Witness ==
    /\ pc = "item"
    /\ page = 2
    /\ pages_done = 1
    /\ item_i = 0
    /\ last_call.op = "discover"
    /\ last_call.arg = 2
    /\ last_call.ok
    /\ Len(Results(data)) = 1
    /\ Len(all_content) = 1

\* A step in which an exception is raised inside a combination after its
\* first page was fetched: the discover call for a later page raises, or the
\* progress callback raises on the fraction it is handed.
LaterFailure ==
    \/ pc = "discover" /\ last_call'.op = "discover" /\ ~last_call'.ok
    \/ /\ pc = "page"
       /\ progress_args' # NoProgress
       /\ ~(0 <= progress_args'[1] /\ progress_args'[1] <= progress_args'[2])

\* C18: when the discover call for a page p > 1 or the progress callback
\* raises, the combination is left with no page pending, every record
\* appended so far stays, the engine stands at the head of the provider loop,
\* from where its next step is the first discover call of the next
\* combination if one is left, and the table handed back at the end holds
\* every accumulated record.
C18_AbandonKeepsRecords ==
    [][ /\ LaterFailure =>
            /\ pc' = "combo"
            /\ all_content' = all_content
            /\ provider_idx' = provider_idx
            /\ page' = 0
        /\ (pc = "combo" /\ provider_idx < NumCombinations) =>
            /\ provider_idx' = provider_idx + 1
            /\ last_call'.op = "discover"
            /\ last_call'.arg = 1
            /\ all_content' = all_content
        /\ (pc = "combo" /\ pc' = "ready") =>
            /\ provider_idx = NumCombinations
            /\ session'.df = DataFrame(all_content) ]_vars

\* C18 witness: page 1 of the first combination gave a record, the discover
\* call for page 2 raised, and the engine stands at the head of the provider
\* loop with the record kept and combinations left.
C18_Witness ==
    /\ pc = "combo"
    /\ last_call.op = "discover"
    /\ last_call.arg = 2
    /\ ~last_call.ok
    /\ provider_idx = 1
    /\ provider_idx < NumCombinations
    /\ Len(all_content) = 1
    /\ page = 0

====
